---- MODULE Spec2Model ----
(***************************************************************************)
(* A model of the reconciliation engine of the proceedings migration:      *)
(* src/services/migrator.py (Migrator), src/adapters/openai_client.py      *)
(* (OpenAIClient.create_completion) and src/services/pdf_downloader.py.    *)
(*                                                                         *)
(* A Python str is a sequence of one-character strings, so that strip,     *)
(* re.sub, re.match, int() and str() are computed character by character.  *)
(* Python's None is the value None below, which is no str.                 *)
(***************************************************************************)
EXTENDS Integers, Sequences, FiniteSets, TLC

VARIABLES
    doi_prefix,           \* Migrator.doi_prefix (configuration, optional)
    inferred_doi_prefix,  \* Migrator.inferred_doi_prefix
    year,                 \* Migrator.year
    op,                   \* the method of the engine called last
    arg,                  \* its arguments
    ret,                  \* its result
    pc,                   \* position of migrate()
    failed,               \* the first collaborator call that failed during migrate()
    raised,               \* the exception that left migrate(), if any
    files,                \* the save directory of the downloader: file name -> bytes
    fetched,              \* the urls download_and_save_pdf has requested in the run under way
    runs,                 \* the runs of donwload_pdf_files_from_url started so far
    urls,                 \* pdf_urls of donwload_pdf_files_from_url
    idx,                  \* the urls its loop has dealt with
    downloaded_count,     \* its downloaded_count
    skipped_count,        \* its skipped_count
    site_data,            \* website_articles_data_list of extract_metadata
    pdf_data,             \* pdf_articles_list of extract_metadata
    migrate_articles,     \* articles_list of migrate()
    completing,           \* articles_list of complete_missing_fields
    completions           \* what create_completion returned, call by call

migrateVars ==
    <<pc, failed, raised, files, fetched, runs, urls, idx, downloaded_count,
      skipped_count, site_data, pdf_data, migrate_articles, completing, completions>>

vars == <<doi_prefix, inferred_doi_prefix, year, op, arg, ret, migrateVars>>

(***************************************************************************)
(* Bounds of the model.                                                    *)
(***************************************************************************)
MaxWrap == 2        \* resolver prefixes / blanks put in front of an identifier
MaxPageCount == 3   \* num_pages ranges over -MaxPageCount..MaxPageCount
MaxDois == 3        \* length of the list given to _infer_doi_prefix
MaxSite == 2        \* site records in one join
MaxPdf == 2         \* extracted records in one join
MaxArticles == 3    \* articles given to write_csv_by_workshop
MaxUrls == 2        \* PDF links on the page of the site

(***************************************************************************)
(* Python values and str methods.                                          *)
(***************************************************************************)
None == <<"None">>

\* No call has failed, no exception has been raised.
NoCall == "none"

Truthy(v) == v # None /\ v # <<>>

Or(a, b) == IF Truthy(a) THEN a ELSE b

Drop(s, n) == SubSeq(s, n + 1, Len(s))

StartsWith(s, p) == Len(p) <= Len(s) /\ SubSeq(s, 1, Len(p)) = p

Whitespace == {" "}

RECURSIVE LStrip(_)
LStrip(s) ==
    IF s # <<>> /\ Head(s) \in Whitespace THEN LStrip(Tail(s)) ELSE s

RECURSIVE RStripChars(_, _)
RStripChars(s, chars) ==
    IF s # <<>> /\ s[Len(s)] \in chars
    THEN RStripChars(SubSeq(s, 1, Len(s) - 1), chars)
    ELSE s

Strip(s) == RStripChars(LStrip(s), Whitespace)

DigitChars == <<"0", "1", "2", "3", "4", "5", "6", "7", "8", "9">>

Digits == {DigitChars[i] : i \in 1..Len(DigitChars)}

DigitVal(c) == (CHOOSE i \in 1..Len(DigitChars) : DigitChars[i] = c) - 1

IsDigit(s) == s # <<>> /\ \A i \in 1..Len(s) : s[i] \in Digits

RECURSIVE ParseInt(_)
ParseInt(s) ==
    IF s = <<>> THEN 0
    ELSE ParseInt(SubSeq(s, 1, Len(s) - 1)) * 10 + DigitVal(s[Len(s)])

RECURSIVE NatToStr(_)
NatToStr(n) ==
    IF n < Len(DigitChars) THEN <<DigitChars[n + 1]>>
    ELSE NatToStr(n \div Len(DigitChars)) \o <<DigitChars[(n % Len(DigitChars)) + 1]>>

IntToStr(n) == IF n < 0 THEN <<"-">> \o NatToStr(0 - n) ELSE NatToStr(n)

(***************************************************************************)
(* The literals of the source.                                             *)
(***************************************************************************)
SchemeHttp == <<"h", "t", "t", "p", ":", "/", "/">>
SchemeHttps == <<"h", "t", "t", "p", "s", ":", "/", "/">>
HostDx == <<"d", "x", ".">>
HostDoiOrg == <<"d", "o", "i", ".", "o", "r", "g", "/">>

\* The strings the pattern ^https?://(dx\.)?doi\.org/ matches.
ResolverPrefixes ==
    {s \o d \o HostDoiOrg : s \in {SchemeHttp, SchemeHttps}, d \in {<<>>, HostDx}}

\* re.sub(r"^https?://(dx\.)?doi\.org/", "", s): the anchored pattern matches at
\* most once, at the start of s.
SubResolverPrefix(s) ==
    IF \E p \in ResolverPrefixes : StartsWith(s, p)
    THEN Drop(s, Len(CHOOSE p \in ResolverPrefixes : StartsWith(s, p)))
    ELSE s

NormalizeDoi(doi) ==
    IF ~Truthy(doi) THEN <<>>
    ELSE SubResolverPrefix(Strip(doi))

\* update_pages with the last page computed without the "- 1".
UpdatePagesOffByOne(first_page, num_pages) ==
    IF Truthy(first_page) /\ IsDigit(first_page)
    THEN IF num_pages = 1
         THEN IntToStr(ParseInt(first_page))
         ELSE IntToStr(ParseInt(first_page)) \o <<"-">>
                  \o IntToStr(ParseInt(first_page) + num_pages)
    ELSE first_page

UpdatePages(first_page, num_pages) ==
    IF Truthy(first_page) /\ IsDigit(first_page)
    THEN LET first_page_int == ParseInt(first_page)
         IN  IF num_pages = 1
             THEN IntToStr(first_page_int)
             ELSE LET last_page == first_page_int + num_pages - 1
                  IN  IntToStr(first_page_int) \o <<"-">> \o IntToStr(last_page)
    ELSE first_page

(***************************************************************************)
(* _infer_doi_prefix.                                                      *)
(***************************************************************************)
TenDot == <<"1", "0", ".">>

\* The indices m at which re.match(r"^(10\.\d+/[^/]+\.\d+)\.", s) can end group 1:
\* s[1..m] is "10." digits "/" a slash-free token "." digits, and s[m+1] = ".".
GroupEnds(s) ==
    {m \in 1..(Len(s) - 1) :
        /\ s[m + 1] = "."
        /\ StartsWith(s, TenDot)
        /\ \E k \in (Len(TenDot) + 2)..m :      \* k: the "/"
               /\ s[k] = "/"
               /\ \A i \in (Len(TenDot) + 1)..(k - 1) : s[i] \in Digits
               /\ \E j \in (k + 1)..(m - 2) :   \* j: the end of [^/]+
                      /\ \A i \in (k + 1)..j : s[i] # "/"
                      /\ s[j + 1] = "."
                      /\ \A i \in (j + 2)..m : s[i] \in Digits}

\* [^/]+ is greedy: the match that backtracking finds first is the longest one.
MatchPrefix(s) ==
    IF GroupEnds(s) = {} THEN None
    ELSE LET m == CHOOSE x \in GroupEnds(s) : \A y \in GroupEnds(s) : y <= x
         IN  SubSeq(s, 1, m) \o <<".">>

\* [f(x) for x in seq if x is kept], for the two list-building loops
NormalizedDois(dois) ==
    LET RECURSIVE Go(_)
        Go(rest) ==
            IF rest = <<>> THEN <<>>
            ELSE IF ~Truthy(Head(rest)) THEN Go(Tail(rest))
            ELSE IF Truthy(NormalizeDoi(Head(rest)))
                 THEN <<NormalizeDoi(Head(rest))>> \o Go(Tail(rest))
                 ELSE Go(Tail(rest))
    IN  Go(dois)

PrefixPatterns(normalized_dois) ==
    LET RECURSIVE Go(_)
        Go(rest) ==
            IF rest = <<>> THEN <<>>
            ELSE IF MatchPrefix(Head(rest)) # None
                 THEN <<MatchPrefix(Head(rest))>> \o Go(Tail(rest))
                 ELSE Go(Tail(rest))
    IN  Go(normalized_dois)

\* Counter(xs): the distinct elements in the order of their first occurrence
\* (a dict keeps insertion order), each with its count.
CounterKeys(xs) ==
    LET RECURSIVE Go(_, _)
        Go(rest, keys) ==
            IF rest = <<>> THEN keys
            ELSE IF \E i \in 1..Len(keys) : keys[i] = Head(rest)
                 THEN Go(Tail(rest), keys)
                 ELSE Go(Tail(rest), Append(keys, Head(rest)))
    IN  Go(xs, <<>>)

CounterCount(xs, x) == Cardinality({i \in 1..Len(xs) : xs[i] = x})

\* most_common(1) with the last of the tied keys instead of the first.
MostCommonLast(xs) ==
    LET keys == CounterKeys(xs)
        best == CHOOSE i \in 1..Len(keys) :
                    /\ \A j \in 1..Len(keys) :
                           CounterCount(xs, keys[j]) <= CounterCount(xs, keys[i])
                    /\ \A j \in (i + 1)..Len(keys) :
                           CounterCount(xs, keys[j]) < CounterCount(xs, keys[i])
    IN  keys[best]

\* Counter(xs).most_common(1)[0][0]: max() over the items keeps the first of the
\* keys with the largest count.
MostCommon(xs) ==
    LET keys == CounterKeys(xs)
        best == CHOOSE i \in 1..Len(keys) :
                    /\ \A j \in 1..Len(keys) :
                           CounterCount(xs, keys[j]) <= CounterCount(xs, keys[i])
                    /\ \A j \in 1..(i - 1) :
                           CounterCount(xs, keys[j]) < CounterCount(xs, keys[i])
    IN  keys[best]

InferDoiPrefix(dois) ==
    IF dois = <<>> THEN None
    ELSE LET normalized_dois == NormalizedDois(dois)
             prefix_patterns == PrefixPatterns(normalized_dois)
         IN  IF normalized_dois = <<>> THEN None
             ELSE IF prefix_patterns = <<>> THEN None
             ELSE MostCommon(prefix_patterns)

\* An Article object: the attributes the engine reads and writes; title stands
\* for the free-form fields taken from the PDF.
Article(id_jems, section_abbrev, first_page, num_pages, doi, pages, title) ==
    [id_jems |-> id_jems, section_abbrev |-> section_abbrev,
     first_page |-> first_page, num_pages |-> num_pages, doi |-> doi,
     pages |-> pages, title |-> title]

(***************************************************************************)
(* write_csv_by_workshop: the grouping of lines 384-394.                   *)
(***************************************************************************)
\* The value of an attribute the object does not have (hasattr is False).
NoAttr == <<"no attribute">>

Unknown == <<"U", "N", "K", "N", "O", "W", "N">>

HasAttr(v) == v # NoAttr

\* article.to_dict().get("sectionAbbrev", "UNKNOWN") of an article without the
\* attribute: to_dict has no such key to give.
ToDictSectionAbbrev(article) ==
    IF HasAttr(article.section_abbrev) THEN article.section_abbrev ELSE Unknown

SectionOf(article) ==
    IF HasAttr(article.section_abbrev)
    THEN article.section_abbrev
    ELSE ToDictSectionAbbrev(article)

\* workshops: a dict, kept as the sequence of its items in insertion order.
GroupByWorkshop(articles_list) ==
    LET RECURSIVE Go(_, _)
        Go(rest, workshops) ==
            IF rest = <<>> THEN workshops
            ELSE LET article == Head(rest)
                     section == SectionOf(article)
                 IN  IF \E i \in 1..Len(workshops) : workshops[i].name = section
                     THEN Go(Tail(rest),
                             [i \in 1..Len(workshops) |->
                                 IF workshops[i].name = section
                                 THEN [workshops[i] EXCEPT
                                          !.articles = Append(@, article)]
                                 ELSE workshops[i]])
                     ELSE Go(Tail(rest),
                             Append(workshops,
                                    [name |-> section, articles |-> <<article>>]))
    IN  Go(articles_list, <<>>)

(***************************************************************************)
(* correct_doi and merge_article_info.                                     *)
(***************************************************************************)
\* correct_doi without the early return for a record that has an identifier.
CorrectDoiOverwrite(article, cfg_prefix, inferred, yr) ==
    IF Truthy(Or(cfg_prefix, inferred)) /\ HasAttr(article.first_page)
           /\ Truthy(article.first_page)
    THEN [article EXCEPT
             !.doi = RStripChars(NormalizeDoi(Or(cfg_prefix, inferred)), {"/"})
                         \o yr \o <<".">> \o article.first_page]
    ELSE article

CorrectDoi(article, cfg_prefix, inferred, yr) ==
    IF HasAttr(article.doi) /\ Truthy(article.doi) /\ Truthy(Strip(article.doi))
    THEN [article EXCEPT !.doi = NormalizeDoi(article.doi)]
    ELSE LET prefix == Or(cfg_prefix, inferred)
         IN  IF ~Truthy(prefix) THEN article
             ELSE IF HasAttr(article.first_page) /\ Truthy(article.first_page)
             THEN LET normalized == NormalizeDoi(prefix)
                      clean_prefix ==
                          RStripChars(IF ~Truthy(normalized)
                                      THEN SubResolverPrefix(prefix)
                                      ELSE normalized,
                                      {"/"})
                  IN  [article EXCEPT
                          !.doi = clean_prefix \o yr \o <<".">> \o article.first_page]
             ELSE article

\* Article.from_dict of a site record: the keys of the dict under the names of
\* the attributes, an attribute without a key being None.
ArticleFromDict(website_article) ==
    Article(website_article.idJEMS,
            website_article.sectionAbbrev,
            website_article.firstPage,
            None,
            IF HasAttr(website_article.doi) THEN website_article.doi ELSE None,
            None,
            None)

\* pdf_articles_dict: the last record of a key wins.
InPdfDict(pdf_articles_list, idJEMS) ==
    \E i \in 1..Len(pdf_articles_list) : pdf_articles_list[i].id_jems = idJEMS

PdfDictGet(pdf_articles_list, idJEMS) ==
    LET last == CHOOSE i \in 1..Len(pdf_articles_list) :
                    /\ pdf_articles_list[i].id_jems = idJEMS
                    /\ \A j \in (i + 1)..Len(pdf_articles_list) :
                           pdf_articles_list[j].id_jems # idJEMS
    IN  pdf_articles_list[last]

\* The first pass: the identifiers of the site records and of their matches.
ExtractedDois(website_articles_data_list, pdf_articles_list) ==
    LET RECURSIVE Go(_)
        Go(rest) ==
            IF rest = <<>> THEN <<>>
            ELSE LET website_article == Head(rest)
                     idJEMS == website_article.idJEMS
                     site_part ==
                         IF HasAttr(website_article.doi) /\ Truthy(website_article.doi)
                         THEN <<website_article.doi>> ELSE <<>>
                     pdf_part ==
                         IF InPdfDict(pdf_articles_list, idJEMS)
                                /\ Truthy(PdfDictGet(pdf_articles_list, idJEMS).doi)
                         THEN <<PdfDictGet(pdf_articles_list, idJEMS).doi>> ELSE <<>>
                 IN  site_part \o pdf_part \o Go(Tail(rest))
    IN  Go(website_articles_data_list)

\* self.inferred_doi_prefix after lines 203-204.
InferredAfterJoin(website_articles_data_list, pdf_articles_list, cfg_prefix, inferred) ==
    LET extracted_dois == ExtractedDois(website_articles_data_list, pdf_articles_list)
    IN  IF ~Truthy(cfg_prefix) /\ extracted_dois # <<>>
        THEN InferDoiPrefix(extracted_dois)
        ELSE inferred

\* The body of the second loop for one matched site record.
MergeOne(website_article, pdf_article, cfg_prefix, inferred, yr) ==
    LET base == ArticleFromDict(website_article)
        website_doi == base.doi
        \* every attribute but id_jems, section_abbrev, first_page, num_pages, doi
        copied == [base EXCEPT !.title = pdf_article.title, !.pages = pdf_article.pages]
        restored == IF Truthy(website_doi)
                    THEN [copied EXCEPT !.doi = NormalizeDoi(website_doi)]
                    ELSE copied
        paged == [restored EXCEPT
                     !.pages = UpdatePages(website_article.firstPage,
                                           pdf_article.num_pages)]
    IN  CorrectDoi(paged, cfg_prefix, inferred, yr)

\* The second loop with the unmatched site records kept as they are.
MergedArticlesOuter(website_articles_data_list, pdf_articles_list, cfg_prefix, inferred, yr) ==
    [i \in 1..Len(website_articles_data_list) |->
        IF InPdfDict(pdf_articles_list, website_articles_data_list[i].idJEMS)
        THEN MergeOne(website_articles_data_list[i],
                      PdfDictGet(pdf_articles_list, website_articles_data_list[i].idJEMS),
                      cfg_prefix, inferred, yr)
        ELSE ArticleFromDict(website_articles_data_list[i])]

MergedArticles(website_articles_data_list, pdf_articles_list, cfg_prefix, inferred, yr) ==
    LET RECURSIVE Go(_)
        Go(rest) ==
            IF rest = <<>> THEN <<>>
            ELSE LET website_article == Head(rest)
                     idJEMS == website_article.idJEMS
                 IN  IF InPdfDict(pdf_articles_list, idJEMS)
                     THEN <<MergeOne(website_article,
                                     PdfDictGet(pdf_articles_list, idJEMS),
                                     cfg_prefix, inferred, yr)>> \o Go(Tail(rest))
                     ELSE Go(Tail(rest))
    IN  Go(website_articles_data_list)

\* merge_article_info: the list it returns, and self.inferred_doi_prefix after it.
MergeArticleInfo(website_articles_data_list, pdf_articles_list, cfg_prefix, inferred, yr) ==
    LET now_inferred == InferredAfterJoin(website_articles_data_list, pdf_articles_list,
                                          cfg_prefix, inferred)
    IN  [articles |-> MergedArticles(website_articles_data_list, pdf_articles_list,
                                     cfg_prefix, now_inferred, yr),
         inferred |-> now_inferred]

(***************************************************************************)
(* The inputs.                                                             *)
(***************************************************************************)
Year2020 == <<"2", "0", "2", "0">>
Doi5 == <<"1", "0", ".", "1", "/", "w", ".", "2", "0", "2", "0", ".", "5">>
DoiA1 == <<"1", "0", ".", "5", "7", "5", "3", "/", "a", ".", "b", ".", "2", "0", "1", "9", ".", "1">>
DoiA2 == <<"1", "0", ".", "5", "7", "5", "3", "/", "a", ".", "b", ".", "2", "0", "1", "9", ".", "2">>
DoiC9 == <<"1", "0", ".", "5", "7", "5", "3", "/", "c", ".", "d", ".", "2", "0", "1", "9", ".", "9">>
NotADoi == <<"a", "b", "c">>
W1 == <<"W", "1">>
W2 == <<"W", "2">>

\* What may stand in front of an identifier: a resolver URL, the host without a
\* scheme, a blank.
Wrappers == ResolverPrefixes \cup {HostDoiOrg, <<" ">>}

RECURSIVE Wrapped(_, _)
Wrapped(bodies, n) ==
    IF n = 0 THEN bodies
    ELSE Wrapped(bodies, n - 1)
         \cup {w \o x : w \in Wrappers, x \in Wrapped(bodies, n - 1)}

IdentifierInputs == Wrapped({Doi5, NotADoi, <<>>}, MaxWrap) \cup {None}

FirstPageInputs == {None, <<>>, <<"1", "0">>, <<"0", "0", "7">>, <<"0">>, <<"1", "0", "0">>, <<"i", "i", "i">>, <<"1", "a">>}

PageCountInputs == (0 - MaxPageCount)..MaxPageCount

SeqsUpTo(S, n) == UNION {[1..k -> S] : k \in 0..n}

InferInputs ==
    SeqsUpTo({DoiA1, DoiA2, DoiC9, SchemeHttps \o HostDoiOrg \o DoiC9, NotADoi, None},
             MaxDois)

HttpsDoiOrg == SchemeHttps \o HostDoiOrg

RECURSIVE Repeat(_, _)
Repeat(s, n) == IF n = 0 THEN <<>> ELSE s \o Repeat(s, n - 1)

Prefix101 == <<"1", "0", ".", "1", "/", "w", ".">>
Doi7 == <<"1", "0", ".", "1", "/", "w", ".", "2", "0", "2", "0", ".", "7">>
A1 == <<"A", "1">>
A2 == <<"A", "2">>
A3 == <<"A", "3">>

\* doi_prefix of the configuration: absent, bare, or behind resolver URLs.
ConfiguredPrefixes == {None} \cup {Repeat(HttpsDoiOrg, n) \o Prefix101 : n \in 0..MaxWrap}

\* The records of the site: two keys, each with its first page and section, the
\* identifier missing, bare or a resolver URL.
SiteRecords ==
    {[idJEMS |-> k,
      firstPage |-> IF k = A1 THEN <<"1", "0", "0">> ELSE <<"5">>,
      sectionAbbrev |-> IF k = A1 THEN W1 ELSE W2,
      doi |-> d] :
     k \in {A1, A2}, d \in {NoAttr, Doi5, HttpsDoiOrg \o Doi5}}

\* The records extracted from the PDFs: A1 with and without an identifier, A2
\* without, and A3, which the site does not list, with one.
PdfRecords ==
    {Article(A1, None, None, 3, None, None, <<"T", "1">>),
     Article(A1, None, None, 3, Doi7, None, <<"T", "1">>),
     Article(A2, None, None, 1, None, None, <<"T", "2">>),
     Article(A3, None, None, 1, Doi7, None, <<"T", "3">>)}

\* The records given to correct_doi on their own.
CorrectDoiInputs ==
    {Article(A1, W1, fp, None, d, None, None) :
     fp \in {None, <<>>, <<"1", "0", "0">>},
     d \in {None, <<>>, <<" ">>, Doi5, HttpsDoiOrg \o Doi5, <<" ">> \o Doi5}}

SectionInputs == {W1, W2, Unknown, None, NoAttr}

\* The i-th article of a list has key <<"A", i>>.
ArticleLists ==
    {[i \in 1..Len(secs) |->
         Article(<<"A", DigitChars[i + 1]>>, secs[i], None, None, None, None, None)] :
     secs \in SeqsUpTo(SectionInputs, MaxArticles)}

(***************************************************************************)
(* The engine as a state machine: its methods are called one after another *)
(***************************************************************************)
\* A save directory without files.
EmptyDirectory == [n \in {} |-> <<>>]

Init ==
    /\ doi_prefix \in ConfiguredPrefixes
    /\ inferred_doi_prefix = None
    /\ year = Year2020
    /\ op = "idle"
    /\ arg = <<>>
    /\ ret = None
    /\ pc = "idle"
    /\ failed = NoCall
    /\ raised = NoCall
    /\ files = EmptyDirectory
    /\ fetched = <<>>
    /\ runs = 0
    /\ urls = <<>>
    /\ idx = 0
    /\ downloaded_count = 0
    /\ skipped_count = 0
    /\ site_data = <<>>
    /\ pdf_data = <<>>
    /\ migrate_articles = <<>>
    /\ completing = <<>>
    /\ completions = <<>>

\* No call is under way: a method can be called.
Idle == op = "idle" /\ pc = "idle"

\* The call of a method with its result; Return ends the call.
Call(name, args, result) ==
    /\ op' = name
    /\ arg' = args
    /\ ret' = result

CallNormalizeDoi ==
    /\ Idle
    /\ \E doi \in IdentifierInputs :
           /\ Call("_normalize_doi", <<doi>>, NormalizeDoi(doi))
           /\ UNCHANGED <<doi_prefix, inferred_doi_prefix, year, migrateVars>>

CallUpdatePages ==
    /\ Idle
    /\ \E first_page \in FirstPageInputs, num_pages \in PageCountInputs :
           /\ Call("update_pages", <<first_page, num_pages>>,
                   UpdatePages(first_page, num_pages))
           /\ UNCHANGED <<doi_prefix, inferred_doi_prefix, year, migrateVars>>

CallInferDoiPrefix ==
    /\ Idle
    /\ \E dois \in InferInputs :
           /\ Call("_infer_doi_prefix", <<dois>>, InferDoiPrefix(dois))
           /\ UNCHANGED <<doi_prefix, inferred_doi_prefix, year, migrateVars>>

CallWriteCsvByWorkshop ==
    /\ Idle
    /\ \E articles_list \in ArticleLists :
           /\ Call("write_csv_by_workshop", <<articles_list>>,
                   GroupByWorkshop(articles_list))
           /\ UNCHANGED <<doi_prefix, inferred_doi_prefix, year, migrateVars>>

Return ==
    /\ op # "idle"
    /\ op' = "idle"
    /\ arg' = <<>>
    /\ ret' = None
    /\ UNCHANGED <<doi_prefix, inferred_doi_prefix, year, migrateVars>>

CallMergeArticleInfo ==
    /\ Idle
    /\ \E website_articles_data_list \in SeqsUpTo(SiteRecords, MaxSite),
          pdf_articles_list \in SeqsUpTo(PdfRecords, MaxPdf) :
           LET merged == MergeArticleInfo(website_articles_data_list, pdf_articles_list,
                                          doi_prefix, inferred_doi_prefix, year)
           IN  /\ Call("merge_article_info",
                       <<website_articles_data_list, pdf_articles_list>>,
                       merged.articles)
               /\ inferred_doi_prefix' = merged.inferred
               /\ UNCHANGED <<doi_prefix, year, migrateVars>>

CallCorrectDoi ==
    /\ Idle
    /\ \E article \in CorrectDoiInputs :
           /\ Call("correct_doi", <<article>>,
                   CorrectDoi(article, doi_prefix, inferred_doi_prefix, year))
           /\ UNCHANGED <<doi_prefix, inferred_doi_prefix, year, migrateVars>>

Next ==
    \/ CallNormalizeDoi
    \/ CallUpdatePages
    \/ CallInferDoiPrefix
    \/ CallWriteCsvByWorkshop
    \/ Return

Spec == Init /\ [][Next]_vars

\* The joins of one engine, and correct_doi on records of its own.
NextJoin ==
    \/ CallMergeArticleInfo
    \/ CallCorrectDoi
    \/ Return

SpecJoin == Init /\ [][NextJoin]_vars

(***************************************************************************)
(* migrate(): the collaborators are called one after another; a call either *)
(* returns or raises.                                                      *)
(***************************************************************************)
DotPdf == <<".", "p", "d", "f">>

EndsWith(s, suffix) ==
    Len(suffix) <= Len(s) /\ SubSeq(s, Len(s) - Len(suffix) + 1, Len(s)) = suffix

\* url.split("/")[-1]
LastSegment(url) ==
    LET slashes == {i \in 1..Len(url) : url[i] = "/"}
    IN  IF slashes = {} THEN url
        ELSE Drop(url, CHOOSE i \in slashes : \A j \in slashes : j <= i)

Filename(url) ==
    IF EndsWith(LastSegment(url), DotPdf) THEN LastSegment(url)
    ELSE LastSegment(url) \o DotPdf

UrlInputs == {<<"d", "/", "1">>, <<"d", "/", "1", ".", "p", "d", "f">>, <<"d", "/", "2">>}

FileNameInputs == {Filename(u) : u \in UrlInputs}

\* The bytes of a file that is in the save directory before any run.
ExistingBytes == <<"o", "l", "d">>

\* response.content of requests.get(url): the bytes the site serves at url.
ResponseContent(url) == <<"b", "y", "t", "e", "s", " ", "o", "f", " ">> \o url

\* An existence check that never finds the file.
FileExistsNever(directory, url) == FALSE

\* os.path.exists(filepath) for the file name of url.
FileExists(directory, url) == Filename(url) \in DOMAIN directory

\* download_and_save_pdf without a failure: the save directory after it, and
\* the urls it requested.
DownloadAndSavePdf(directory, url) ==
    IF FileExists(directory, url)
    THEN [files |-> directory, requested |-> <<>>]
    ELSE [files |-> [n \in DOMAIN directory \cup {Filename(url)} |->
                         IF n = Filename(url) THEN ResponseContent(url)
                         ELSE directory[n]],
          requested |-> <<url>>]

\* Save directories before a run: some of the files are there already.
SaveDirectories == {[n \in S |-> ExistingBytes] : S \in SUBSET FileNameInputs}

NumFilesInputs == {0 - 1, 1}

\* What the site and the PDFs give in a run of migrate().
MigrateSiteInputs ==
    {<<>>,
     <<[idJEMS |-> A1, firstPage |-> <<"1", "0", "0">>, sectionAbbrev |-> W1, doi |-> NoAttr]>>,
     <<[idJEMS |-> A1, firstPage |-> <<"1", "0", "0">>, sectionAbbrev |-> W1, doi |-> NoAttr],
       [idJEMS |-> A2, firstPage |-> <<"5">>, sectionAbbrev |-> W2, doi |-> Doi5]>>}

MigratePdfInputs ==
    {<<Article(A1, None, None, 3, None, None, <<"T", "1">>)>>,
     <<Article(A1, None, None, 3, None, None, <<"T", "1">>),
       Article(A2, None, None, 1, None, None, <<"T", "2">>)>>}

\* The articles read back from the log of an earlier run when the extraction
\* phase produced none.
LoggedInputs == {<<>>, <<Article(A1, W1, <<"1", "0", "0">>, None, None, <<"1", "0", "0", "-", "1", "0", "2">>, <<"T", "1">>)>>}

CompletionText == <<"{", "}">>

InitMigrate ==
    /\ doi_prefix \in {None, Prefix101}
    /\ inferred_doi_prefix = None
    /\ year = Year2020
    /\ op = "idle"
    /\ arg = <<>>
    /\ ret = None
    /\ pc = "idle"
    /\ failed = NoCall
    /\ raised = NoCall
    /\ files \in SaveDirectories
    /\ fetched = <<>>
    /\ runs = 0
    /\ urls = <<>>
    /\ idx = 0
    /\ downloaded_count = 0
    /\ skipped_count = 0
    /\ site_data = <<>>
    /\ pdf_data = <<>>
    /\ migrate_articles = <<>>
    /\ completing = <<>>
    /\ completions = <<>>

engineVars == <<doi_prefix, inferred_doi_prefix, year>>
downloadVars == <<files, fetched, runs, urls, idx, downloaded_count, skipped_count>>
extractVars == <<site_data, pdf_data, migrate_articles>>
completionVars == <<completing, completions>>

\* The call that is about to be made raises, and nothing catches it.
Raise(call) ==
    /\ pc' = "raised"
    /\ raised' = call
    /\ failed' = IF failed = NoCall THEN call ELSE failed

CallMigrate ==
    /\ Idle
    /\ \E num_files \in NumFilesInputs :
           /\ op' = "migrate"
           /\ arg' = <<num_files>>
           /\ ret' = None
    /\ pc' = "get_pdf_urls"
    /\ UNCHANGED <<engineVars, failed, raised, downloadVars, extractVars, completionVars>>

GetPdfUrls ==
    /\ pc = "get_pdf_urls"
    /\ \E pdf_urls \in SeqsUpTo(UrlInputs, MaxUrls) : urls' = pdf_urls
    /\ idx' = 0 /\ downloaded_count' = 0 /\ skipped_count' = 0
    /\ fetched' = <<>>
    /\ runs' = runs + 1
    /\ pc' = "download_loop"
    /\ UNCHANGED <<engineVars, op, arg, ret, failed, raised, files, extractVars,
                   completionVars>>

GetPdfUrlsRaises ==
    /\ pc = "get_pdf_urls"
    /\ Raise("get_pdf_urls")
    /\ UNCHANGED <<engineVars, op, arg, ret, downloadVars, extractVars, completionVars>>

\* The loop of donwload_pdf_files_from_url has a url left to deal with.
LoopGoesOn ==
    /\ pc = "download_loop"
    /\ idx < Len(urls)
    /\ ~(arg[1] # 0 - 1 /\ idx >= arg[1])

DownloadSkip ==
    /\ LoopGoesOn
    /\ FileExists(files, urls[idx + 1])
    /\ skipped_count' = skipped_count + 1
    /\ idx' = idx + 1
    /\ UNCHANGED <<engineVars, op, arg, ret, pc, failed, raised, files, fetched, runs, urls,
                   downloaded_count, extractVars, completionVars>>

DownloadSave ==
    /\ LoopGoesOn
    /\ ~FileExists(files, urls[idx + 1])
    /\ LET saved == DownloadAndSavePdf(files, urls[idx + 1])
       IN  /\ files' = saved.files
           /\ fetched' = fetched \o saved.requested
    /\ downloaded_count' = downloaded_count + 1
    /\ idx' = idx + 1
    /\ UNCHANGED <<engineVars, op, arg, ret, pc, failed, raised, runs, urls, skipped_count,
                   extractVars, completionVars>>

DownloadRaises ==
    /\ LoopGoesOn
    /\ ~FileExists(files, urls[idx + 1])
    /\ fetched' = fetched \o DownloadAndSavePdf(files, urls[idx + 1]).requested
    /\ Raise("download_and_save_pdf")
    /\ UNCHANGED <<engineVars, op, arg, ret, files, runs, urls, idx, downloaded_count,
                   skipped_count, extractVars, completionVars>>

\* The loop ends and the downloader returns: its locals are gone.
DownloadDone ==
    /\ pc = "download_loop"
    /\ ~LoopGoesOn
    /\ urls' = <<>> /\ idx' = 0 /\ downloaded_count' = 0 /\ skipped_count' = 0
    /\ fetched' = <<>>
    /\ pc' = "process_all_pdfs"
    /\ UNCHANGED <<engineVars, op, arg, ret, failed, raised, files, runs, extractVars,
                   completionVars>>

ProcessAllPdfs ==
    /\ pc = "process_all_pdfs"
    /\ pc' = "extract_articles_info_from_the_website"
    /\ UNCHANGED <<engineVars, op, arg, ret, failed, raised, downloadVars, extractVars,
                   completionVars>>

ExtractArticlesInfoFromTheWebsite ==
    /\ pc = "extract_articles_info_from_the_website"
    /\ site_data' \in MigrateSiteInputs
    /\ pc' = "extract_sections_from_website"
    /\ UNCHANGED <<engineVars, op, arg, ret, failed, raised, downloadVars, pdf_data,
                   migrate_articles, completionVars>>

ExtractSectionsFromWebsite ==
    /\ pc = "extract_sections_from_website"
    /\ pc' = "extract_articles_data_from_PDF_text"
    /\ UNCHANGED <<engineVars, op, arg, ret, failed, raised, downloadVars, extractVars,
                   completionVars>>

ExtractArticlesDataFromPdfText ==
    /\ pc = "extract_articles_data_from_PDF_text"
    /\ pdf_data' \in MigratePdfInputs
    /\ pc' = "merge_article_info"
    /\ UNCHANGED <<engineVars, op, arg, ret, failed, raised, downloadVars, site_data,
                   migrate_articles, completionVars>>

ExtractionSteps ==
    {"process_all_pdfs", "extract_articles_info_from_the_website",
     "extract_sections_from_website", "extract_articles_data_from_PDF_text"}

ExtractionRaises ==
    /\ pc \in ExtractionSteps
    /\ Raise(pc)
    /\ UNCHANGED <<engineVars, op, arg, ret, downloadVars, extractVars, completionVars>>

\* Steps 4 to 7 of extract_metadata, and its return to migrate().
MergeAndWrite ==
    /\ pc = "merge_article_info"
    /\ LET merged == MergeArticleInfo(site_data, pdf_data, doi_prefix,
                                      inferred_doi_prefix, year)
       IN  /\ migrate_articles' = merged.articles
           /\ inferred_doi_prefix' = merged.inferred
    /\ pc' = "complete_missing_fields"
    /\ UNCHANGED <<doi_prefix, year, op, arg, ret, failed, raised, downloadVars,
                   site_data, pdf_data, completionVars>>

\* complete_missing_fields starts: an empty list is replaced by the logged one.
CompleteMissingFields ==
    /\ pc = "complete_missing_fields"
    /\ IF migrate_articles = <<>>
       THEN completing' \in LoggedInputs
       ELSE completing' = migrate_articles
    /\ completions' = <<>>
    /\ pc' = "do_field_completion"
    /\ UNCHANGED <<engineVars, op, arg, ret, failed, raised, downloadVars, extractVars>>

\* create_completion: the text of the completion, or "" when the call of the
\* API raised.
CreateCompletion(api_raises) == IF api_raises THEN <<>> ELSE CompletionText

\* The field completion asks for one completion per article.
CompletionsDue == Len(completing)

CreateCompletionReturns ==
    /\ pc = "do_field_completion"
    /\ Len(completions) < CompletionsDue
    /\ completions' = Append(completions, CreateCompletion(FALSE))
    /\ UNCHANGED <<engineVars, op, arg, ret, pc, failed, raised, downloadVars,
                   extractVars, completing>>

\* The API call raises inside create_completion, which catches the exception.
CreateCompletionCatches ==
    /\ pc = "do_field_completion"
    /\ Len(completions) < CompletionsDue
    /\ completions' = Append(completions, CreateCompletion(TRUE))
    /\ failed' = IF failed = NoCall THEN "create_completion" ELSE failed
    /\ UNCHANGED <<engineVars, op, arg, ret, pc, raised, downloadVars, extractVars,
                   completing>>

\* The rest of complete_missing_fields, and migrate() returns articles_list.
MigrateReturns ==
    /\ pc = "do_field_completion"
    /\ Len(completions) = CompletionsDue
    /\ pc' = "returned"
    /\ ret' = migrate_articles
    /\ UNCHANGED <<engineVars, op, arg, failed, raised, downloadVars, extractVars,
                   completionVars>>

NextMigrate ==
    \/ CallMigrate
    \/ GetPdfUrls
    \/ GetPdfUrlsRaises
    \/ DownloadSkip
    \/ DownloadSave
    \/ DownloadRaises
    \/ DownloadDone
    \/ ProcessAllPdfs
    \/ ExtractArticlesInfoFromTheWebsite
    \/ ExtractSectionsFromWebsite
    \/ ExtractArticlesDataFromPdfText
    \/ ExtractionRaises
    \/ MergeAndWrite
    \/ CompleteMissingFields
    \/ CreateCompletionReturns
    \/ CreateCompletionCatches
    \/ MigrateReturns

SpecMigrate == InitMigrate /\ [][NextMigrate]_vars

(***************************************************************************)
(* The downloader on its own: donwload_pdf_files_from_url is run on a save *)
(* directory, and run again at once on the same page.                      *)
(***************************************************************************)
NumUrlsInputs == (0 - 2)..MaxUrls

InitDownload == InitMigrate /\ doi_prefix = None

CallDonwloadPdfFilesFromUrl ==
    /\ Idle
    /\ \E num_urls_to_process \in NumUrlsInputs :
           /\ op' = "donwload_pdf_files_from_url"
           /\ arg' = <<num_urls_to_process>>
           /\ ret' = None
    /\ pc' = "get_pdf_urls"
    /\ UNCHANGED <<engineVars, failed, raised, downloadVars, extractVars, completionVars>>

\* The first run has ended without a failure and the second one starts with
\* the same argument: get_pdf_urls gives the same links, the counters are 0.
RunAgain ==
    /\ op = "donwload_pdf_files_from_url"
    /\ pc = "download_loop"
    /\ ~LoopGoesOn
    /\ runs = 1
    /\ runs' = runs + 1
    /\ idx' = 0 /\ downloaded_count' = 0 /\ skipped_count' = 0
    /\ fetched' = <<>>
    /\ UNCHANGED <<engineVars, op, arg, ret, pc, failed, raised, files, urls, extractVars,
                   completionVars>>

NextDownload ==
    \/ CallDonwloadPdfFilesFromUrl
    \/ GetPdfUrls
    \/ GetPdfUrlsRaises
    \/ DownloadSkip
    \/ DownloadSave
    \/ DownloadRaises
    \/ RunAgain

SpecDownload == InitDownload /\ [][NextDownload]_vars

(***************************************************************************)
(* The claims.                                                             *)
(***************************************************************************)

\* C1: identifier normalization is idempotent: normalizing the result of
\* _normalize_doi again gives that same result, for every identifier string.
C1_NormalizeIdempotent ==
    op = "_normalize_doi" => NormalizeDoi(ret) = ret

IsStr(v) == v # None /\ v # NoAttr

Canonical(s) == IsDigit(s) /\ (Len(s) > 1 => s[1] # "0")

PrefixAt(dois, i) == MatchPrefix(NormalizeDoi(dois[i]))

Votes(dois, p) == Cardinality({i \in 1..Len(dois) : PrefixAt(dois, i) = p})

\* C8: _infer_doi_prefix returns nothing exactly when no identifier of the list
\* matches the pattern (or the list is empty); otherwise it returns a matched
\* prefix, ending in ".", that no other matched prefix outnumbers and that is
\* met first among the prefixes with as many occurrences; the example gives
\* "10.5753/a.b.2019.".
C8_FrequencyVoting ==
    op = "_infer_doi_prefix" =>
        LET dois == arg[1]
            Matching == {i \in 1..Len(dois) : PrefixAt(dois, i) # None}
        IN  /\ ret = None <=> Matching = {}
            /\ ret # None =>
                   /\ ret[Len(ret)] = "."
                   /\ \E i \in Matching :
                          /\ PrefixAt(dois, i) = ret
                          /\ \A j \in Matching :
                                 /\ Votes(dois, PrefixAt(dois, j)) <= Votes(dois, ret)
                                 /\ Votes(dois, PrefixAt(dois, j)) = Votes(dois, ret)
                                        => i <= j
            /\ dois = <<DoiA1, DoiA2, DoiC9>> => ret = <<"1", "0", ".", "5", "7", "5", "3", "/", "a", ".", "b", ".", "2", "0", "1", "9", ".">>

\* C8 happens: a tie between two prefixes was decided for the first one met.
C8_Witness ==
    /\ op = "_infer_doi_prefix"
    /\ arg = <<<<DoiC9, NotADoi, DoiA1>>>>
    /\ ret = <<"1", "0", ".", "5", "7", "5", "3", "/", "c", ".", "d", ".", "2", "0", "1", "9", ".">>

\* The section code of a record is absent.
SectionAbsent(article) ==
    article.section_abbrev = NoAttr \/ article.section_abbrev = None

SectionKey(article) ==
    IF SectionAbsent(article) THEN Unknown ELSE article.section_abbrev

\* C9: the grouping of write_csv_by_workshop is a partition: the groups have
\* distinct keys, and the group of a key holds exactly the input records with
\* that section code ("UNKNOWN" for a record without one), unchanged and in
\* input order.
C9_Partition ==
    op = "write_csv_by_workshop" =>
        LET articles_list == arg[1]
            Keyed(k) == SelectSeq(articles_list, LAMBDA a : SectionKey(a) = k)
        IN  /\ \A i, j \in 1..Len(ret) : ret[i].name = ret[j].name => i = j
            /\ \A i \in 1..Len(ret) :
                   ret[i].articles # <<>> /\ ret[i].articles = Keyed(ret[i].name)
            /\ \A i \in 1..Len(articles_list) :
                   \E j \in 1..Len(ret) : ret[j].name = SectionKey(articles_list[i])

\* The site records of a join that have an extracted record of their key, in
\* site order, and the extracted record the index keeps for a key (the last).
MatchedSite(site_records, extracted_records) ==
    SelectSeq(site_records,
              LAMBDA w : \E j \in 1..Len(extracted_records) :
                             extracted_records[j].id_jems = w.idJEMS)

ExtractedFor(extracted_records, key) ==
    extracted_records[CHOOSE j \in 1..Len(extracted_records) :
                          /\ extracted_records[j].id_jems = key
                          /\ \A h \in 1..Len(extracted_records) :
                                 extracted_records[h].id_jems = key => h <= j]

IsResolverUrl(doi) == \E p \in ResolverPrefixes : StartsWith(doi, p)

NonBlank(doi) == IsStr(doi) /\ Strip(doi) # <<>>

\* C2: every record merge_article_info returns has a doi that is absent, empty
\* or bare: it never begins with http:// or https:// followed by doi.org/ or
\* dx.doi.org/.
C2_DoiBare ==
    op = "merge_article_info" =>
        \A i \in 1..Len(ret) :
            ret[i].doi \in {None, <<>>} \/ ~IsResolverUrl(ret[i].doi)

\* C3: merge_article_info is an order-preserving inner join: the keys of its
\* output are the keys of the site records, in site order, that occur among
\* the extracted records.
C3_InnerJoin ==
    op = "merge_article_info" =>
        LET matched == MatchedSite(arg[1], arg[2])
        IN  /\ Len(ret) = Len(matched)
            /\ \A i \in 1..Len(ret) : ret[i].id_jems = matched[i].idJEMS

\* C3 happens: site keys (A2, A1) joined with extracted keys (A1, A3) gave
\* exactly one record, for A1.
C3_Witness ==
    /\ op = "merge_article_info"
    /\ Len(arg[1]) = 2 /\ arg[1][1].idJEMS = A2 /\ arg[1][2].idJEMS = A1
    /\ Len(arg[2]) = 2 /\ arg[2][1].id_jems = A1 /\ arg[2][2].id_jems = A3
    /\ Len(ret) = 1 /\ ret[1].id_jems = A1

\* C4: in every matched pair a non-blank site identifier gives the merged doi,
\* normalized; otherwise an identifier of the extracted record does, normalized.
C4_Precedence ==
    op = "merge_article_info" =>
        LET matched == MatchedSite(arg[1], arg[2])
        IN  \A i \in 1..Len(ret) :
                LET site == matched[i]
                    extracted == ExtractedFor(arg[2], site.idJEMS)
                IN  IF NonBlank(site.doi)
                    THEN ret[i].doi = NormalizeDoi(site.doi)
                    ELSE Truthy(extracted.doi) =>
                             ret[i].doi = NormalizeDoi(extracted.doi)

\* C5 as claimed: correct_doi leaves the doi of a record equal to what it was
\* when that doi was non-blank.
C5_DoiUntouched ==
    (op = "correct_doi" /\ NonBlank(arg[1].doi)) => ret.doi = arg[1].doi

\* C5, amended: correct_doi replaces a non-blank doi by its normal form (the
\* surrounding blanks and one leading resolver URL removed), whatever prefix,
\* year and first page there are, never by a synthesized one, and changes
\* nothing else of the record.
C5_DoiOnlyNormalized ==
    (op = "correct_doi" /\ NonBlank(arg[1].doi)) =>
        LET stripped == Strip(arg[1].doi)
        IN  /\ ret = [arg[1] EXCEPT !.doi = ret.doi]
            /\ \/ ~IsResolverUrl(stripped) /\ ret.doi = stripped
               \/ \E p \in ResolverPrefixes : stripped = p \o ret.doi

\* C5 happens: a record with an identifier and a first page went through
\* correct_doi while the engine held an inferred prefix, and kept its doi.
C5_Witness ==
    /\ op = "correct_doi"
    /\ doi_prefix = None /\ inferred_doi_prefix # None
    /\ arg[1].doi = Doi5 /\ arg[1].first_page = <<"1", "0", "0">>
    /\ ret.doi = Doi5

\* C6: without a configured prefix, in year 2020 and with the prefix
\* "10.1/w.2020." inferred from another identifier of the batch, the site record
\* A1 (first page 100, section W1, no doi) joined with the extracted record A1
\* (3 pages, no doi) gives pages "100-102" and doi "10.1/w.2020.100", under W1.
C6_EndToEnd ==
    (/\ op = "merge_article_info"
     /\ doi_prefix = None
     /\ year = Year2020
     /\ inferred_doi_prefix = <<"1", "0", ".", "1", "/", "w", ".", "2", "0", "2", "0", ".">>) =>
        LET matched == MatchedSite(arg[1], arg[2])
            groups == GroupByWorkshop(ret)
        IN  \A i \in 1..Len(ret) :
                (/\ matched[i] = [idJEMS |-> A1, firstPage |-> <<"1", "0", "0">>,
                                  sectionAbbrev |-> W1, doi |-> NoAttr]
                 /\ ExtractedFor(arg[2], A1).num_pages = 3
                 /\ ExtractedFor(arg[2], A1).doi = None) =>
                    /\ ret[i].pages = <<"1", "0", "0", "-", "1", "0", "2">>
                    /\ ret[i].doi = <<"1", "0", ".", "1", "/", "w", ".", "2", "0", "2", "0", ".", "1", "0", "0">>
                    /\ \E g \in 1..Len(groups) :
                           /\ groups[g].name = W1
                           /\ \E h \in 1..Len(groups[g].articles) :
                                  groups[g].articles[h] = ret[i]

\* C10: a collaborator call that fails during migrate() surfaces as a failure:
\* from then on migrate() has raised, it runs no later step and does not
\* return normally.
C10_FailuresHalt ==
    failed # NoCall => (pc = "raised" /\ raised = failed)

\* C11: on an engine without a configured prefix, every join returns what a
\* freshly constructed engine (no prefix inferred yet) returns for the same two
\* lists: a prefix inferred in an earlier join has no part in a later one.
C11_RunScopedPrefix ==
    (op = "merge_article_info" /\ doi_prefix = None) =>
        ret = MergeArticleInfo(arg[1], arg[2], doi_prefix, None, year).articles

\* The non-empty identifiers of the two lists of a join: those of every site
\* record, then those of every extracted record.
IdentifiersOfSite(site_records) ==
    LET with_doi == SelectSeq(site_records,
                              LAMBDA w : HasAttr(w.doi) /\ Truthy(w.doi))
    IN  [i \in 1..Len(with_doi) |-> with_doi[i].doi]

IdentifiersOfExtracted(extracted_records) ==
    LET with_doi == SelectSeq(extracted_records, LAMBDA a : Truthy(a.doi))
    IN  [i \in 1..Len(with_doi) |-> with_doi[i].doi]

\* C12: on an engine without a configured prefix, the prefix a join leaves for
\* its synthesis is the one inferred from the non-empty identifiers of all its
\* site records and all its extracted records, matched or not.
C12_InferenceSample ==
    (op = "merge_article_info" /\ doi_prefix = None) =>
        inferred_doi_prefix =
            InferDoiPrefix(IdentifiersOfSite(arg[1]) \o IdentifiersOfExtracted(arg[2]))

\* Neither the site record nor the extracted record of a pair has an identifier.
NoIdentifierFromSources(website_article, pdf_article) ==
    /\ ~(HasAttr(website_article.doi) /\ Truthy(website_article.doi))
    /\ ~Truthy(pdf_article.doi)

\* C13: in a join without a configured prefix whose identifiers allow no prefix
\* to be inferred, every matched pair gives an output record with the fields of
\* the site record, the title of the extracted record and its pages, and a
\* record whose sources had no identifier ends with no identifier.
C13_MissingPrefixNotFatal ==
    (/\ op = "merge_article_info"
     /\ doi_prefix = None
     /\ InferDoiPrefix(IdentifiersOfSite(arg[1]) \o IdentifiersOfExtracted(arg[2])) = None) =>
        LET matched == MatchedSite(arg[1], arg[2])
        IN  /\ Len(ret) = Len(matched)
            /\ \A i \in 1..Len(ret) :
                   LET pdf_article == ExtractedFor(arg[2], matched[i].idJEMS)
                   IN  /\ ret[i].id_jems = matched[i].idJEMS
                       /\ ret[i].section_abbrev = matched[i].sectionAbbrev
                       /\ ret[i].first_page = matched[i].firstPage
                       /\ ret[i].title = pdf_article.title
                       /\ ret[i].pages = UpdatePages(matched[i].firstPage,
                                                     pdf_article.num_pages)
                       /\ NoIdentifierFromSources(matched[i], pdf_article) =>
                              ~Truthy(ret[i].doi)

\* The urls a run of donwload_pdf_files_from_url deals with.
Processed(pdf_urls, num_urls_to_process) ==
    IF num_urls_to_process = 0 - 1 THEN Len(pdf_urls)
    ELSE IF num_urls_to_process < 0 THEN 0
    ELSE IF num_urls_to_process < Len(pdf_urls) THEN num_urls_to_process
    ELSE Len(pdf_urls)

\* The loop of the downloader has ended without a failure.
RunEnded == pc = "download_loop" /\ ~LoopGoesOn

\* A step of the downloader leaves every file of the save directory in place
\* with its bytes, and requests a url only if its file is not there.
ExistingFilesKept ==
    /\ \A n \in DOMAIN files : n \in DOMAIN files' /\ files'[n] = files[n]
    /\ Len(fetched') > Len(fetched) =>
           /\ fetched' = Append(fetched, urls[idx + 1])
           /\ Filename(urls[idx + 1]) \notin DOMAIN files

\* During a run the two counters add up to the urls dealt with and the file of
\* each of them is there; a run that ends has dealt with the urls asked for;
\* the second of two runs downloads nothing.
DownloadCounts ==
    pc = "download_loop" =>
        /\ downloaded_count + skipped_count = idx
        /\ Len(fetched) = downloaded_count
        /\ \A i \in 1..idx : Filename(urls[i]) \in DOMAIN files
        /\ RunEnded => idx = Processed(urls, arg[1])
        /\ runs = 2 => (downloaded_count = 0 /\ fetched = <<>>)

\* C14: donwload_pdf_files_from_url never requests or rewrites a file that is
\* in the save directory already, whatever the directory and the links, also
\* when two links have the same file name; after a run without failure the
\* file of every url dealt with exists and downloaded_count + skipped_count is
\* the number of urls dealt with; a second run at once downloads nothing.
C14_DownloadSkipsExisting ==
    /\ []DownloadCounts
    /\ [][ExistingFilesKept]_vars

\* The second run has ended: it skipped two links with the same file name, and
\* the file has the bytes the first run got from the first of the two.
C14_Witness ==
    /\ op = "donwload_pdf_files_from_url"
    /\ runs = 2
    /\ RunEnded
    /\ Len(urls) = 2 /\ urls[1] # urls[2] /\ Filename(urls[1]) = Filename(urls[2])
    /\ skipped_count = 2
    /\ files[Filename(urls[1])] = ResponseContent(urls[1])
    /\ Filename(urls[2]) \in DOMAIN files /\ DOMAIN files # {Filename(urls[1])}

====
